---- MODULE Spec2Model ----
(***************************************************************************)
(* Model of bu_vs_bb_drill.py: the BTN 45% range evaluator, the rejection  *)
(* sampling dealer and the session driver with its key watcher threads.    *)
(*                                                                         *)
(* A card is the pair <<rank character, suit character>>, the two          *)
(* characters card[0], card[1] of the source's two-character strings.      *)
(***************************************************************************)
EXTENDS Integers, Sequences, FiniteSets, Bags, TLC

VARIABLES
    \* ---- range evaluator harness (is_btn_open_45 applied to one pair)
    card1, card2, verdict,
    \* ---- census harness (is_btn_open_45 applied to every unordered pair)
    cenI, cenJ, cenCount,
    \* ---- dealer: deal_btn_open_and_board and the process-wide generator
    rng,        \* state of the module-level generator of `random`
    dpc,        \* position inside deal_btn_open_and_board
    dseed,      \* its argument `seed` (None or an integer)
    deck,       \* local `deck` of the current attempt
    dealt,      \* the returned <<hand, board>>, None while running
    \* ---- caller of the dealer in the dealer harness
    calls, golden,
    \* ---- session driver: main and wait_for_key_with_timeout
    mpc,        \* position of the main thread
    args_seed,  \* args.seed (None or an integer)
    hands,      \* args.hands
    seed,       \* main's local `seed` (None or an integer)
    timeout,    \* args.timeout, in polls of the countdown loop (0.1 s each)
    i,          \* the loop variable of `for i in range(1, args.hands + 1)`
    street,     \* 1..4: the street last displayed (Preflop, Flop, Turn, River)
    out,        \* the lines printed so far
    elapsed,    \* time.time() - start_time of the current wait, in polls
    ret,        \* the value the last wait returned, None before the first
    waits,      \* number of calls of wait_for_key_with_timeout so far
    key_pressed, \* the Event `key_pressed` of the current (latest) wait
    watcher,    \* the watcher thread of the current wait: [pc, old_settings, ch]
    stale,      \* the bag of watcher threads of earlier waits still running
    err,        \* the exceptions that ended a thread, as reported on stderr
    \* ---- the terminal and the user
    stdinKind,  \* what sys.stdin is: a terminal, a non-terminal file, no file
    term,       \* the terminal's mode (termios attributes)
    stdin,      \* characters readable on stdin
    line,       \* characters of the line being edited in cooked mode
    sigint,     \* a SIGINT is pending for the main thread
    typed,      \* number of keys typed so far
    pressed,    \* a continue key was typed during the current wait, in time
    stopRead,   \* a watcher has read Ctrl-C during a wait, in time
    \* ---- formatting harness (format_cards applied to one list of cards)
    cards,      \* the argument `cards`
    formatted   \* the string returned, None before the call

rangeVars == <<card1, card2, verdict>>
censusVars == <<cenI, cenJ, cenCount>>
dealVars == <<rng, dpc, dseed, deck, dealt>>
callerVars == <<calls, golden>>
mainVars == <<mpc, args_seed, hands, seed, timeout, i, street, out, elapsed, ret>>
watchVars == <<waits, key_pressed, watcher, stale, err>>
ttyVars == <<stdinKind, term, stdin, line, sigint, typed, pressed, stopRead>>
sessionVars == <<mainVars, watchVars, ttyVars>>
formatVars == <<cards, formatted>>
vars == <<rangeVars, censusVars, dealVars, callerVars, sessionVars, formatVars>>

\* Python's None and an optional value: <<>> is None, <<v>> is the value v
None == <<>>
Some(v) == <<v>>

(***************************************************************************)
(* Constants of the source                                                 *)
(***************************************************************************)
RANKS == <<"2", "3", "4", "5", "6", "7", "8", "9", "T", "J", "Q", "K", "A">>
SUITS == <<"s", "h", "d", "c">>

\* RANKS.index(r): zero-based position of r in RANKS
rank_value(r) == (CHOOSE k \in 1..Len(RANKS) : RANKS[k] = r) - 1

\* normalize_cards without the sort: the ranks are returned in argument order
normalize_cards_unsorted(c1, c2) ==
    [hi |-> c1[1], lo |-> c2[1], suited |-> (c1[2] = c2[2]), pair |-> (c1[1] = c2[1])]

\* (hi_rank, lo_rank, suited, pair)
normalize_cards(c1, c2) ==
    LET r1 == c1[1]
        s1 == c1[2]
        r2 == c2[1]
        s2 == c2[2]
        pair == (r1 = r2)
        suited == (s1 = s2)
    IN  IF rank_value(r1) > rank_value(r2)
        THEN [hi |-> r1, lo |-> r2, suited |-> suited, pair |-> pair]
        ELSE [hi |-> r2, lo |-> r1, suited |-> suited, pair |-> pair]

\* in_suited_rules with the J threshold off by one (J3s admitted)
in_suited_rules_J3(hi, lo) ==
    LET lo_val == rank_value(lo)
    IN  IF hi \in {"A", "K", "Q"} THEN TRUE
        ELSE IF hi = "J" THEN lo_val >= rank_value("3")
        ELSE IF hi = "T" THEN lo_val >= rank_value("6")
        ELSE IF hi = "9" THEN lo_val >= rank_value("6")
        ELSE IF hi = "8" THEN lo_val >= rank_value("5")
        ELSE IF hi = "7" THEN lo_val >= rank_value("5")
        ELSE IF hi = "6" THEN lo_val >= rank_value("4")
        ELSE IF hi = "5" THEN lo_val >= rank_value("3")
        ELSE IF hi = "4" THEN lo = "3"
        ELSE FALSE

in_suited_rules(hi, lo) ==
    LET lo_val == rank_value(lo)
    IN  IF hi \in {"A", "K", "Q"} THEN TRUE
        ELSE IF hi = "J" THEN lo_val >= rank_value("4")
        ELSE IF hi = "T" THEN lo_val >= rank_value("6")
        ELSE IF hi = "9" THEN lo_val >= rank_value("6")
        ELSE IF hi = "8" THEN lo_val >= rank_value("5")
        ELSE IF hi = "7" THEN lo_val >= rank_value("5")
        ELSE IF hi = "6" THEN lo_val >= rank_value("4")
        ELSE IF hi = "5" THEN lo_val >= rank_value("3")
        ELSE IF hi = "4" THEN lo = "3"
        ELSE FALSE

in_offsuit_rules(hi, lo) ==
    IF hi = "A" THEN rank_value(lo) >= rank_value("3")
    ELSE IF hi = "K" THEN rank_value(lo) >= rank_value("8")
    ELSE IF hi = "Q" THEN rank_value(lo) >= rank_value("8")
    ELSE IF hi = "J" THEN rank_value(lo) >= rank_value("8")
    ELSE IF hi = "T" THEN rank_value(lo) >= rank_value("8")
    ELSE hi = "9" /\ lo = "8"

is_btn_open_45(c1, c2) ==
    LET n == normalize_cards(c1, c2)
    IN  IF n.pair THEN TRUE
        ELSE IF n.suited THEN in_suited_rules(n.hi, n.lo)
        ELSE in_offsuit_rules(n.hi, n.lo)

\* [r + s for r in RANKS for s in SUITS]
fresh_deck ==
    [k \in 1..(Len(RANKS) * Len(SUITS)) |->
        <<RANKS[((k - 1) \div Len(SUITS)) + 1], SUITS[((k - 1) % Len(SUITS)) + 1]>>]

Cards == {fresh_deck[k] : k \in 1..Len(fresh_deck)}

(***************************************************************************)
(* Range evaluator harness: one call of is_btn_open_45 on a pair of        *)
(* distinct cards.                                                         *)
(***************************************************************************)
RangeInit ==
    /\ card1 \in Cards
    /\ card2 \in Cards \ {card1}
    /\ verdict = None

Classify ==
    /\ verdict = None
    /\ verdict' = Some(is_btn_open_45(card1, card2))
    /\ UNCHANGED <<card1, card2>>

(***************************************************************************)
(* Census harness: is_btn_open_45 applied to each of the C(52,2) unordered *)
(* pairs fresh_deck[i], fresh_deck[j], i < j, counting the accepted ones.  *)
(***************************************************************************)
CensusInit ==
    /\ cenI = 1
    /\ cenJ = 2
    /\ cenCount = 0

CensusDone == cenI = Len(fresh_deck)

CensusStep ==
    /\ ~CensusDone
    /\ cenCount' = cenCount +
            (IF is_btn_open_45(fresh_deck[cenI], fresh_deck[cenJ]) THEN 1 ELSE 0)
    /\ IF cenJ < Len(fresh_deck)
       THEN /\ cenJ' = cenJ + 1
            /\ cenI' = cenI
       ELSE /\ cenI' = cenI + 1
            /\ cenJ' = IF cenI + 2 <= Len(fresh_deck) THEN cenI + 2 ELSE cenJ

(***************************************************************************)
(* The process-wide generator of `random`.  The Mersenne Twister is        *)
(* modelled by a full-period linear congruential generator on RngMod       *)
(* states: random.seed(s) sets the state as a function of s alone, and     *)
(* every draw advances the state.                                          *)
(***************************************************************************)
RngMod == 65536
RngMul == 25173
RngInc == 13849
RngShift == 256

RngNext(g) == (RngMul * g + RngInc) % RngMod

\* random.seed(seed)
SeedState(s) == s % RngMod

\* the draw j = randbelow(n) made from generator state g (already advanced)
randbelow(g, n) == (g \div RngShift) % n

\* random.shuffle(x): for i in reversed(range(1, len(x))):
\*                        j = randbelow(i + 1); x[i], x[j] = x[j], x[i]
\* p is the one-based position i + 1.
RECURSIVE ShuffleFrom(_, _, _)
ShuffleFrom(x, p, g) ==
    IF p < 2 THEN [deck |-> x, rng |-> g]
    ELSE LET g1 == RngNext(g)
             q == randbelow(g1, p) + 1
         IN  ShuffleFrom([x EXCEPT ![p] = x[q], ![q] = x[p]], p - 1, g1)

shuffle(x, g) == ShuffleFrom(x, Len(x), g)

\* deck[2:7] taken one position early (overlaps the hand)
board_of_early(d) == SubSeq(d, 2, 6)

\* board = deck[2:7]
board_of(d) == SubSeq(d, 3, 7)

(***************************************************************************)
(* deal_btn_open_and_board(seed)                                           *)
(***************************************************************************)
\* the seeding step with the re-seed left out
DealSeedSkipped ==
    /\ dpc = "seed"
    /\ dpc' = "loop"
    /\ UNCHANGED <<rng, dseed, deck, dealt>>

\* if seed is not None: random.seed(seed)
DealSeed ==
    /\ dpc = "seed"
    /\ rng' = IF dseed # None THEN SeedState(dseed[1]) ELSE rng
    /\ dpc' = "loop"
    /\ UNCHANGED <<dseed, deck, dealt>>

\* one attempt that returns the first two cards without asking the range
DealAttemptUnchecked ==
    /\ dpc = "loop"
    /\ LET sh == shuffle(fresh_deck, rng)
       IN  /\ deck' = sh.deck
           /\ rng' = sh.rng
           /\ dealt' = <<<<sh.deck[1], sh.deck[2]>>, board_of(sh.deck)>>
           /\ dpc' = "ret"
    /\ UNCHANGED dseed

\* one attempt that shuffles the deck left by the attempt before it
DealAttemptReshuffle ==
    /\ dpc = "loop"
    /\ LET sh == shuffle(IF deck = <<>> THEN fresh_deck ELSE deck, rng)
           c1 == sh.deck[1]
           c2 == sh.deck[2]
       IN  /\ deck' = sh.deck
           /\ rng' = sh.rng
           /\ IF is_btn_open_45(c1, c2)
              THEN /\ dealt' = <<<<c1, c2>>, board_of(sh.deck)>>
                   /\ dpc' = "ret"
              ELSE /\ dealt' = dealt
                   /\ dpc' = "loop"
    /\ UNCHANGED dseed

\* one iteration of `while True`: fresh deck, shuffle, accept or go round again
DealAttempt ==
    /\ dpc = "loop"
    /\ LET sh == shuffle(fresh_deck, rng)
           c1 == sh.deck[1]
           c2 == sh.deck[2]
       IN  /\ deck' = sh.deck
           /\ rng' = sh.rng
           /\ IF is_btn_open_45(c1, c2)
              THEN /\ dealt' = <<<<c1, c2>>, board_of(sh.deck)>>
                   /\ dpc' = "ret"
              ELSE /\ dealt' = dealt
                   /\ dpc' = "loop"
    /\ UNCHANGED dseed

(***************************************************************************)
(* Dealer harness: a caller that makes up to MaxCalls calls of             *)
(* deal_btn_open_and_board, each with no seed or a seed of 0..MaxSeed,     *)
(* from an arbitrary generator state, and keeps the first result it got    *)
(* for each seed.                                                          *)
(***************************************************************************)
MaxCalls == 3
MaxSeed == 2
MaxInitRng == 15

Seeds == 0..MaxSeed

DealIdle ==
    /\ dpc = "idle"
    /\ dseed = None
    /\ deck = <<>>
    /\ dealt = None

CallerInit ==
    /\ rng \in 0..MaxInitRng
    /\ DealIdle
    /\ calls = 0
    /\ golden = [s \in Seeds |-> None]

CallDeal ==
    /\ dpc = "idle"
    /\ calls < MaxCalls
    /\ \E s \in {Some(v) : v \in Seeds} \cup {None} : dseed' = s
    /\ dpc' = "seed"
    /\ dealt' = None
    /\ calls' = calls + 1
    /\ UNCHANGED <<rng, deck, golden>>

ReturnDeal ==
    /\ dpc = "ret"
    /\ dpc' = "idle"
    /\ golden' = IF dseed # None /\ golden[dseed[1]] = None
                 THEN [golden EXCEPT ![dseed[1]] = dealt]
                 ELSE golden
    /\ UNCHANGED <<rng, dseed, deck, dealt, calls>>

(***************************************************************************)
(* The terminal and the user.  In raw mode every key typed is readable at  *)
(* once and Ctrl-C is the character CtrlC; in cooked mode keys are held in *)
(* the line being edited until Enter, and Ctrl-C raises SIGINT, which      *)
(* Python turns into KeyboardInterrupt in the main thread.  stdin is the    *)
(* queue of readable characters; sys.stdin.read(1) takes its head (keys    *)
(* are typed one at a time, so Python's read-ahead buffer stays empty).    *)
(* The user types at most MaxKeys keys in a session.  pressed and stopRead *)
(* are history variables: they record what happened during a wait and are  *)
(* read by no action.                                                      *)
(***************************************************************************)
MaxKeys == 1

CtrlC == "^C"
ContinueKeys == {" ", "\r", "\n"}
Keys == {" ", "\r", "x", CtrlC}

Alive == mpc \notin {"done", "stopped"}

InWait == mpc \in {"poll", "sleep"}

TypeKey(ch) ==
    /\ Alive
    /\ stdinKind = "tty"
    /\ typed < MaxKeys
    /\ typed' = typed + 1
    /\ pressed' = (pressed \/ (ch \in ContinueKeys /\ InWait /\ elapsed < timeout))
    /\ IF term = "raw"
       THEN /\ stdin' = Append(stdin, ch)
            /\ UNCHANGED <<line, sigint>>
       ELSE IF ch = CtrlC
       THEN /\ sigint' = TRUE
            /\ UNCHANGED <<stdin, line>>
       ELSE IF ch \in {"\r", "\n"}
       THEN /\ stdin' = stdin \o line \o <<"\n">>
            /\ line' = <<>>
            /\ UNCHANGED sigint
       ELSE /\ line' = Append(line, ch)
            /\ UNCHANGED <<stdin, sigint>>
    /\ UNCHANGED <<stdinKind, term, stopRead>>

(***************************************************************************)
(* check_keypress, the watcher thread.  A slot [cur, w] is the watcher w   *)
(* of the current wait (cur) or a watcher w of an earlier wait that is     *)
(* still running.  The Event of an earlier wait is referenced by its       *)
(* watcher alone, so setting it is not recorded.                           *)
(***************************************************************************)
NoThread == [pc |-> "none", old_settings |-> None, ch |-> None]

Ended(w) == w.pc \in {"none", "returned", "raised"}

Slots ==
    {[cur |-> TRUE, w |-> watcher]} \cup {[cur |-> FALSE, w |-> r] : r \in BagToSet(stale)}

Rec(s) == s.w

\* the thread in slot s becomes w
Put(s, w) ==
    IF s.cur
    THEN /\ watcher' = w
         /\ stale' = stale
    ELSE /\ watcher' = watcher
         /\ stale' = (stale (-) SetToBag({s.w})) (+)
                        (IF Ended(w) THEN EmptyBag ELSE SetToBag({w}))

\* the watcher is between tty.setraw and the end of its finally clause
Active(w) == w.pc \in {"select", "finally_ret", "finally_exc"}

\* fd = sys.stdin.fileno(); old_settings = termios.tcgetattr(fd)
WatcherStart(s) ==
    /\ Alive
    /\ Rec(s).pc = "start"
    /\ IF stdinKind = "nofile"
       THEN /\ Put(s, [Rec(s) EXCEPT !.pc = "returned"])
            /\ err' = err
       ELSE IF stdinKind = "notatty"
       THEN /\ Put(s, [Rec(s) EXCEPT !.pc = "raised"])
            /\ err' = Append(err, "termios.error")
       ELSE /\ Put(s, [Rec(s) EXCEPT !.pc = "setraw", !.old_settings = Some(term)])
            /\ err' = err
    /\ UNCHANGED <<waits, key_pressed, ttyVars>>

\* tty.setraw(fd), which sets the mode with TCSAFLUSH: pending input is dropped
WatcherSetRaw(s) ==
    /\ Alive
    /\ Rec(s).pc = "setraw"
    /\ term' = "raw"
    /\ stdin' = <<>>
    /\ line' = <<>>
    /\ Put(s, [Rec(s) EXCEPT !.pc = "select"])
    /\ UNCHANGED <<waits, key_pressed, err, stdinKind, sigint, typed, pressed, stopRead>>

\* WatcherRead with the test of ch widened to any character but Ctrl-C
WatcherReadAnyKey(s) ==
    /\ Alive
    /\ Rec(s).pc = "select"
    /\ stdin # <<>>
    /\ LET ch == Head(stdin)
       IN  /\ stdin' = Tail(stdin)
           /\ IF ch = CtrlC
              THEN /\ Put(s, [Rec(s) EXCEPT !.pc = "finally_exc", !.ch = Some(ch)])
                   /\ UNCHANGED key_pressed
              ELSE /\ key_pressed' = IF s.cur THEN TRUE ELSE key_pressed
                   /\ Put(s, [Rec(s) EXCEPT !.pc = "finally_ret", !.ch = Some(ch)])
    /\ stopRead' = (stopRead \/ (Head(stdin) = CtrlC /\ InWait /\ elapsed < timeout))
    /\ UNCHANGED <<waits, err, stdinKind, term, line, sigint, typed, pressed>>

\* while not key_pressed.is_set():
\*     if select.select([sys.stdin], [], [], 0.1)[0]: ch = sys.stdin.read(1) ...
\* A watcher's Event is set by that watcher alone, just before it returns, so
\* the loop test never fails; a select that times out changes nothing, and a
\* read that finds the character taken by another watcher waits for the next.
WatcherRead(s) ==
    /\ Alive
    /\ Rec(s).pc = "select"
    /\ stdin # <<>>
    /\ LET ch == Head(stdin)
       IN  /\ stdin' = Tail(stdin)
           /\ IF ch = CtrlC
              THEN /\ Put(s, [Rec(s) EXCEPT !.pc = "finally_exc", !.ch = Some(ch)])
                   /\ UNCHANGED key_pressed
              ELSE IF ch \in ContinueKeys
              THEN /\ key_pressed' = IF s.cur THEN TRUE ELSE key_pressed
                   /\ Put(s, [Rec(s) EXCEPT !.pc = "finally_ret", !.ch = Some(ch)])
              ELSE /\ Put(s, [Rec(s) EXCEPT !.ch = Some(ch)])
                   /\ UNCHANGED key_pressed
    /\ stopRead' = (stopRead \/ (Head(stdin) = CtrlC /\ InWait /\ elapsed < timeout))
    /\ UNCHANGED <<waits, err, stdinKind, term, line, sigint, typed, pressed>>

\* finally: termios.tcsetattr(fd, termios.TCSADRAIN, old_settings); then the
\* thread ends, by return or with the KeyboardInterrupt it raised, which
\* threading reports on stderr
WatcherFinally(s) ==
    /\ Alive
    /\ Rec(s).pc \in {"finally_ret", "finally_exc"}
    /\ term' = Rec(s).old_settings[1]
    /\ IF term = "cooked" /\ term' = "raw"
       THEN /\ stdin' = stdin \o line
            /\ line' = <<>>
       ELSE UNCHANGED <<stdin, line>>
    /\ IF Rec(s).pc = "finally_exc"
       THEN /\ Put(s, [Rec(s) EXCEPT !.pc = "raised"])
            /\ err' = Append(err, "KeyboardInterrupt")
       ELSE /\ Put(s, [Rec(s) EXCEPT !.pc = "returned"])
            /\ err' = err
    /\ UNCHANGED <<waits, key_pressed, stdinKind, sigint, typed, pressed, stopRead>>

(***************************************************************************)
(* wait_for_key_with_timeout(timeout), called by main                      *)
(***************************************************************************)
\* Resume with the last street off by one: a further street after the River
ResumePastRiver(st) == IF st <= 4 THEN "show" ELSE "for"

\* where main goes on after the wait of street st
Resume(st) == IF st < 4 THEN "show" ELSE "for"

\* start_time, key_pressed = threading.Event(), key_thread.start()
WaitStart ==
    /\ mpc = "wait"
    /\ ~sigint
    /\ elapsed' = 0
    /\ waits' = waits + 1
    /\ key_pressed' = FALSE
    /\ watcher' = [pc |-> "start", old_settings |-> None, ch |-> None]
    /\ stale' = IF Ended(watcher) THEN stale ELSE stale (+) SetToBag({watcher})
    /\ err' = err
    /\ pressed' = FALSE
    /\ mpc' = "poll"
    /\ UNCHANGED <<args_seed, hands, seed, timeout, i, street, out, ret>>
    /\ UNCHANGED <<stdinKind, term, stdin, line, sigint, typed, stopRead>>

\* WaitPoll with a timeout that gives up the rest of the hand
WaitPollTimeoutEndsHand ==
    /\ mpc = "poll"
    /\ ~sigint
    /\ IF elapsed < timeout
       THEN IF key_pressed
            THEN /\ ret' = Some(TRUE)
                 /\ mpc' = Resume(street)
            ELSE /\ ret' = ret
                 /\ mpc' = "sleep"
       ELSE /\ ret' = Some(FALSE)
            /\ mpc' = "for"
    /\ UNCHANGED <<args_seed, hands, seed, timeout, i, street, out, elapsed>>
    /\ UNCHANGED <<watchVars, ttyVars>>

\* WaitPoll that returns only on a key: at the timeout it goes on waiting
WaitPollBlocking ==
    /\ mpc = "poll"
    /\ ~sigint
    /\ IF key_pressed
       THEN /\ ret' = Some(TRUE)
            /\ mpc' = Resume(street)
       ELSE /\ ret' = ret
            /\ mpc' = IF elapsed < timeout THEN "sleep" ELSE "poll"
    /\ UNCHANGED <<args_seed, hands, seed, timeout, i, street, out, elapsed>>
    /\ UNCHANGED <<watchVars, ttyVars>>

\* the test of the countdown loop and the test of key_pressed inside it
WaitPoll ==
    /\ mpc = "poll"
    /\ ~sigint
    /\ IF elapsed < timeout
       THEN IF key_pressed
            THEN /\ ret' = Some(TRUE)
                 /\ mpc' = Resume(street)
            ELSE /\ ret' = ret
                 /\ mpc' = "sleep"
       ELSE /\ ret' = Some(FALSE)
            /\ mpc' = Resume(street)
    /\ UNCHANGED <<args_seed, hands, seed, timeout, i, street, out, elapsed>>
    /\ UNCHANGED <<watchVars, ttyVars>>

\* print the countdown; time.sleep(0.1)
WaitSleep ==
    /\ mpc = "sleep"
    /\ ~sigint
    /\ elapsed' = elapsed + 1
    /\ mpc' = "poll"
    /\ UNCHANGED <<args_seed, hands, seed, timeout, i, street, out, ret>>
    /\ UNCHANGED <<watchVars, ttyVars>>

(***************************************************************************)
(* main                                                                    *)
(***************************************************************************)
\* the line printed for street k = 2, 3, 4 of a board
StreetLine(k, board) ==
    IF k = 2 THEN <<"Flop", SubSeq(board, 1, 3)>>
    ELSE IF k = 3 THEN <<"Turn", <<board[4]>>>>
    ELSE <<"River", <<board[5]>>>>

\* for i in range(1, args.hands + 1): hand, board = deal_btn_open_and_board(seed)
MainNextHand ==
    /\ mpc = "for"
    /\ ~sigint
    /\ i < hands
    /\ i' = i + 1
    /\ dpc' = "seed"
    /\ dseed' = seed
    /\ dealt' = None
    /\ mpc' = "deal"
    /\ UNCHANGED <<rng, deck>>
    /\ UNCHANGED <<args_seed, hands, seed, timeout, street, out, elapsed, ret>>
    /\ UNCHANGED <<watchVars, ttyVars>>

\* MainDealt with `seed += 1` left out
MainDealtSeedKept ==
    /\ mpc = "deal"
    /\ ~sigint
    /\ dpc = "ret"
    /\ dpc' = "idle"
    /\ out' = out \o <<<<"Hand", i>>, <<"Preflop", dealt[1]>>>>
    /\ street' = 1
    /\ mpc' = "wait"
    /\ UNCHANGED <<rng, dseed, deck, dealt>>
    /\ UNCHANGED <<args_seed, hands, seed, timeout, i, elapsed, ret>>
    /\ UNCHANGED <<watchVars, ttyVars>>

\* the dealer has returned: seed += 1, print the hand header and the preflop
MainDealt ==
    /\ mpc = "deal"
    /\ ~sigint
    /\ dpc = "ret"
    /\ dpc' = "idle"
    /\ seed' = IF seed # None THEN Some(seed[1] + 1) ELSE seed
    /\ out' = out \o <<<<"Hand", i>>, <<"Preflop", dealt[1]>>>>
    /\ street' = 1
    /\ mpc' = "wait"
    /\ UNCHANGED <<rng, dseed, deck, dealt>>
    /\ UNCHANGED <<args_seed, hands, timeout, i, elapsed, ret>>
    /\ UNCHANGED <<watchVars, ttyVars>>

\* print the flop, the turn or the river
MainShow ==
    /\ mpc = "show"
    /\ ~sigint
    /\ street' = street + 1
    /\ out' = Append(out, StreetLine(street + 1, dealt[2]))
    /\ mpc' = "wait"
    /\ UNCHANGED dealVars
    /\ UNCHANGED <<args_seed, hands, seed, timeout, i, elapsed, ret>>
    /\ UNCHANGED <<watchVars, ttyVars>>

\* the loop is exhausted: print("\nDone. Good session.")
MainDone ==
    /\ mpc = "for"
    /\ ~sigint
    /\ i >= hands
    /\ out' = Append(out, <<"Done", <<>>>>)
    /\ mpc' = "done"
    /\ UNCHANGED dealVars
    /\ UNCHANGED <<args_seed, hands, seed, timeout, i, street, elapsed, ret>>
    /\ UNCHANGED <<watchVars, ttyVars>>

\* except KeyboardInterrupt: print("\nStopped by user.")
MainInterrupted ==
    /\ Alive
    /\ sigint
    /\ sigint' = FALSE
    /\ out' = Append(out, <<"Stopped", <<>>>>)
    /\ mpc' = "stopped"
    /\ UNCHANGED dealVars
    /\ UNCHANGED <<args_seed, hands, seed, timeout, i, street, elapsed, ret>>
    /\ UNCHANGED <<watchVars, stdinKind, term, stdin, line, typed, pressed, stopRead>>

(***************************************************************************)
(* Session: main run with 1..MaxHands hands, a timeout of 0..MaxTimeout    *)
(* polls, with or without a seed, on each kind of stdin.                   *)
(***************************************************************************)
MaxHands == 2
MaxTimeout == 1

SessionInit ==
    /\ mpc = "for"
    /\ hands \in 1..MaxHands
    /\ args_seed \in {None, Some(MaxSeed)}
    /\ seed = args_seed
    /\ timeout \in 0..MaxTimeout
    /\ i = 0
    /\ street = 0
    /\ out = <<>>
    /\ elapsed = 0
    /\ ret = None
    /\ waits = 0
    /\ key_pressed = FALSE
    /\ watcher = NoThread
    /\ stale = EmptyBag
    /\ err = <<>>
    /\ stdinKind \in {"tty", "notatty", "nofile"}
    /\ term = "cooked"
    /\ stdin = <<>>
    /\ line = <<>>
    /\ sigint = FALSE
    /\ typed = 0
    /\ pressed = FALSE
    /\ stopRead = FALSE

SessionIdle ==
    /\ mpc = "idle"
    /\ args_seed = None
    /\ hands = 0
    /\ seed = None
    /\ timeout = 0
    /\ i = 0
    /\ street = 0
    /\ out = <<>>
    /\ elapsed = 0
    /\ ret = None
    /\ waits = 0
    /\ key_pressed = FALSE
    /\ watcher = NoThread
    /\ stale = EmptyBag
    /\ err = <<>>
    /\ stdinKind = "nofile"
    /\ term = "cooked"
    /\ stdin = <<>>
    /\ line = <<>>
    /\ sigint = FALSE
    /\ typed = 0
    /\ pressed = FALSE
    /\ stopRead = FALSE

(***************************************************************************)
(* Card formatting.  A string is the sequence of the pieces it is built    *)
(* from: an escape code, a rank character, a suit glyph (named by its code *)
(* point) or a space each count as one piece.                              *)
(***************************************************************************)
SUIT_SYMBOLS == [s |-> "U+2660", h |-> "U+2665", d |-> "U+2666", c |-> "U+2663"]
SUIT_COLORS == [s |-> "ESC[97m", h |-> "ESC[91m", d |-> "ESC[94m", c |-> "ESC[92m"]
RESET_COLOR == "ESC[0m"

\* format_card with the glyph put before the rank
format_card_glyph_first(card) ==
    <<SUIT_COLORS[card[2]], SUIT_SYMBOLS[card[2]], card[1], RESET_COLOR>>

\* f"{color}{rank}{symbol}{RESET_COLOR}"
format_card(card) ==
    <<SUIT_COLORS[card[2]], card[1], SUIT_SYMBOLS[card[2]], RESET_COLOR>>

\* sep.join(parts)
RECURSIVE join(_, _)
join(sep, parts) ==
    IF Len(parts) = 0 THEN <<>>
    ELSE IF Len(parts) = 1 THEN parts[1]
    ELSE parts[1] \o sep \o join(sep, Tail(parts))

\* " ".join(format_card(card) for card in cards)
format_cards(cs) == join(<<" ">>, [k \in 1..Len(cs) |-> format_card(cs[k])])

(***************************************************************************)
(* Formatting harness: one call of format_cards on a list of up to         *)
(* MaxFormatLen cards, repeats allowed.                                    *)
(***************************************************************************)
MaxFormatLen == 3

FormatInit ==
    /\ \E n \in 0..MaxFormatLen : cards \in [1..n -> Cards]
    /\ formatted = None

FormatCards ==
    /\ formatted = None
    /\ formatted' = Some(format_cards(cards))
    /\ UNCHANGED cards

FormatIdle == cards = <<>> /\ formatted = None

(***************************************************************************)
(* Specifications                                                          *)
(***************************************************************************)
RangeIdle == card1 = None /\ card2 = None /\ verdict = None
CensusIdle == cenI = 0 /\ cenJ = 0 /\ cenCount = 0
CallerIdle == calls = 0 /\ golden = <<>>

InitRange == RangeInit /\ CensusIdle /\ rng = 0 /\ DealIdle /\ CallerIdle /\ SessionIdle /\ FormatIdle
NextRange == Classify /\ UNCHANGED <<censusVars, dealVars, callerVars, sessionVars, formatVars>>
SpecRange == InitRange /\ [][NextRange]_vars

InitCensus == CensusInit /\ RangeIdle /\ rng = 0 /\ DealIdle /\ CallerIdle /\ SessionIdle /\ FormatIdle
NextCensus == CensusStep /\ UNCHANGED <<rangeVars, dealVars, callerVars, sessionVars, formatVars>>
SpecCensus == InitCensus /\ [][NextCensus]_vars

InitFormat == FormatInit /\ RangeIdle /\ CensusIdle /\ rng = 0 /\ DealIdle /\ CallerIdle /\ SessionIdle
NextFormat == FormatCards /\ UNCHANGED <<rangeVars, censusVars, dealVars, callerVars, sessionVars>>
SpecFormat == InitFormat /\ [][NextFormat]_vars

InitDeal == CallerInit /\ RangeIdle /\ CensusIdle /\ SessionIdle /\ FormatIdle
NextDeal ==
    \/ CallDeal /\ UNCHANGED <<rangeVars, censusVars, sessionVars, formatVars>>
    \/ DealSeed /\ UNCHANGED <<rangeVars, censusVars, callerVars, sessionVars, formatVars>>
    \/ DealAttempt /\ UNCHANGED <<rangeVars, censusVars, callerVars, sessionVars, formatVars>>
    \/ ReturnDeal /\ UNCHANGED <<rangeVars, censusVars, sessionVars, formatVars>>
SpecDeal == InitDeal /\ [][NextDeal]_vars

Init ==
    /\ SessionInit
    /\ rng = MaxInitRng
    /\ DealIdle
    /\ RangeIdle /\ CensusIdle /\ CallerIdle /\ FormatIdle
otherVars == <<rangeVars, censusVars, callerVars, formatVars>>
Next ==
    \/ MainNextHand /\ UNCHANGED otherVars
    \/ (mpc = "deal" /\ ~sigint /\ DealSeed) /\ UNCHANGED <<otherVars, sessionVars>>
    \/ (mpc = "deal" /\ ~sigint /\ DealAttempt) /\ UNCHANGED <<otherVars, sessionVars>>
    \/ MainDealt /\ UNCHANGED otherVars
    \/ WaitStart /\ UNCHANGED <<otherVars, dealVars>>
    \/ WaitPoll /\ UNCHANGED <<otherVars, dealVars>>
    \/ WaitSleep /\ UNCHANGED <<otherVars, dealVars>>
    \/ MainShow /\ UNCHANGED otherVars
    \/ MainDone /\ UNCHANGED otherVars
    \/ MainInterrupted /\ UNCHANGED otherVars
    \/ \E s \in Slots : WatcherStart(s) /\ UNCHANGED <<otherVars, dealVars, mainVars>>
    \/ \E s \in Slots : WatcherSetRaw(s) /\ UNCHANGED <<otherVars, dealVars, mainVars>>
    \/ \E s \in Slots : WatcherRead(s) /\ UNCHANGED <<otherVars, dealVars, mainVars>>
    \/ \E s \in Slots : WatcherFinally(s) /\ UNCHANGED <<otherVars, dealVars, mainVars>>
    \/ \E ch \in Keys : TypeKey(ch) /\ UNCHANGED <<otherVars, dealVars, mainVars, watchVars>>
Spec == Init /\ [][Next]_vars

(***************************************************************************)
(* Properties of the range evaluator                                       *)
(***************************************************************************)
\* the face value of a rank character, 2..14
RankNum(r) ==
    CASE r = "2" -> 2 [] r = "3" -> 3 [] r = "4" -> 4 [] r = "5" -> 5
      [] r = "6" -> 6 [] r = "7" -> 7 [] r = "8" -> 8 [] r = "9" -> 9
      [] r = "T" -> 10 [] r = "J" -> 11 [] r = "Q" -> 12 [] r = "K" -> 13
      [] r = "A" -> 14

\* the rule tables, on face values
RuleTable(c1, c2) ==
    LET a == RankNum(c1[1])
        b == RankNum(c2[1])
        hi == IF a > b THEN a ELSE b
        lo == IF a > b THEN b ELSE a
    IN  IF a = b THEN TRUE
        ELSE IF c1[2] = c2[2]
        THEN \/ hi \in {14, 13, 12}
             \/ hi = 11 /\ lo >= 4
             \/ hi \in {10, 9} /\ lo >= 6
             \/ hi \in {8, 7} /\ lo >= 5
             \/ hi = 6 /\ lo >= 4
             \/ hi = 5 /\ lo >= 3
             \/ hi = 4 /\ lo = 3
        ELSE \/ hi = 14 /\ lo >= 3
             \/ hi \in {13, 12, 11, 10} /\ lo >= 8
             \/ hi = 9 /\ lo = 8

\* C8: for every pair of distinct cards, is_btn_open_45 returns what the rule
\* tables state (pairs always; suited and offsuit by the kicker thresholds).
C8_MatchesRuleTable ==
    verdict # None => verdict[1] = RuleTable(card1, card2)

\* the boundary hand 43 suited has been classified, and accepted
C8_Witness ==
    /\ verdict = Some(TRUE)
    /\ card1 = <<"3", "c">>
    /\ card2 = <<"4", "c">>

\* C9: of the 1326 unordered pairs of distinct cards, is_btn_open_45 accepts
\* 600 (the documented 45.25%).
C9_Accepts600 ==
    CensusDone => cenCount = 600

(***************************************************************************)
(* Properties of the dealer                                                *)
(***************************************************************************)
\* C6: the hand returned by deal_btn_open_and_board is in the range.
C6_HandInRange ==
    dpc = "ret" => is_btn_open_45(dealt[1][1], dealt[1][2])

\* an unseeded call has returned an unpaired hand
C6_Witness ==
    /\ dpc = "ret"
    /\ dseed = None
    /\ dealt[1][1][1] # dealt[1][2][1]

SevenCards(d) == {d[1][1], d[1][2]} \cup {d[2][k] : k \in 1..Len(d[2])}

\* C7: a result is a hand of 2 cards and a board of 5 cards, the 7 cards are
\* pairwise distinct cards of the 52-card fresh deck, board disjoint from hand.
C7_SevenDistinctCards ==
    dpc = "ret" =>
        /\ Len(dealt[1]) = 2
        /\ Len(dealt[2]) = 5
        /\ Cardinality(SevenCards(dealt)) = 7
        /\ SevenCards(dealt) \subseteq Cards
        /\ Len(fresh_deck) = 52
        /\ Cardinality(Cards) = 52
        /\ {dealt[1][1], dealt[1][2]} \cap {dealt[2][k] : k \in 1..5} = {}

\* a seeded call has returned
C7_Witness ==
    /\ dpc = "ret"
    /\ dseed # None
    /\ Len(dealt[2]) = 5

\* C10: a call with a seed returns the result the first call with that seed
\* returned, whatever was called in between and whatever the generator state.
C10_SameSeedSameDeal ==
    (dpc = "ret" /\ dseed # None /\ golden[dseed[1]] # None)
        => dealt = golden[dseed[1]]

\* a seed is used again after a call with another seed came in between
C10_Witness ==
    /\ dpc = "ret"
    /\ dseed # None
    /\ golden[dseed[1]] # None
    /\ calls = 3
    /\ \E s \in Seeds \ {dseed[1]} : golden[s] # None

(***************************************************************************)
(* Properties of the session                                               *)
(***************************************************************************)
StreetNames == <<"Preflop", "Flop", "Turn", "River">>

\* the k-th line of a session that runs to its end: for each hand its header
\* and its four streets
IsLine(k, entry) ==
    LET h == ((k - 1) \div 5) + 1
        r == (k - 1) % 5
    IN  IF r = 0 THEN entry = <<"Hand", h>> ELSE entry[1] = StreetNames[r]

StreetsShown == Cardinality({k \in 1..Len(out) : out[k][1] \in {"Preflop", "Flop", "Turn", "River"}})

\* C1: the lines printed are, in order, Hand 1, Preflop, Flop, Turn, River,
\* Hand 2, ...: no street skipped or repeated; every street displayed is
\* followed by one wait before anything else is printed; "Done" comes only
\* after the River wait of the last hand has returned.
C1_StreetOrder ==
    /\ \A k \in 1..Len(out) :
        IF out[k][1] = "Stopped" THEN k = Len(out)
        ELSE IF out[k][1] = "Done"
        THEN k = 5 * hands + 1 /\ k = Len(out) /\ waits = 4 * hands /\ ret # None
        ELSE k <= 5 * hands /\ IsLine(k, out[k])
    /\ waits <= StreetsShown
    /\ StreetsShown <= waits + 1
    /\ mpc \in {"show", "for", "deal", "poll", "sleep", "done"} => waits = StreetsShown
    /\ mpc \in {"show", "for"} /\ waits > 0 => ret # None
    /\ mpc = "done" => out[Len(out)][1] = "Done"

\* a two-hand session on a terminal has run to its end
C1_Witness ==
    /\ mpc = "done"
    /\ hands = 2
    /\ stdinKind = "tty"
    /\ Len(out) = 11

\* C2: once a watcher has read Ctrl-C during a wait, no further street or hand
\* is displayed and "Done" is not printed: the only line that may follow is
\* "Stopped by user.".
C2_StopKeyAbortsSession ==
    [][stopRead => (out' = out \/ out' = Append(out, <<"Stopped", <<>>>>))]_vars

AfterWait == waits > 0 /\ mpc \in {"show", "for", "deal", "wait", "done"}

\* C3: whenever a wait on a terminal has returned, the terminal is in the mode
\* it had before the session's waits, which is not raw mode.
C3_TerminalRestored ==
    (stdinKind = "tty" /\ AfterWait) => term = "cooked"

\* C4: a wait during which a continue key was typed before the timeout had
\* elapsed returns True.
C4_ContinueKeyReturnsTrue ==
    (stdinKind = "tty" /\ AfterWait /\ pressed) => ret = Some(TRUE)

ActiveWatchers ==
    (IF Active(watcher) THEN 1 ELSE 0)
        + BagCardinality([w \in {x \in BagToSet(stale) : Active(x)} |-> stale[w]])

\* C5: at most one watcher thread is active at any time.
C5_AtMostOneWatcher ==
    ActiveWatchers <= 1

\* C11: with --seed s, the deal of hand k is called with seed s + k - 1 and
\* seeds the generator with it; without --seed every deal is called with None
\* and leaves the generator state to the shuffles alone.
C11_SeedPerHand ==
    [][/\ (mpc = "for" /\ mpc' = "deal") =>
            dseed' = IF args_seed = None THEN None ELSE Some(args_seed[1] + i' - 1)
       /\ (mpc = "deal" /\ dpc = "seed" /\ dpc' = "loop") =>
            rng' = IF args_seed = None THEN rng ELSE SeedState(args_seed[1] + i - 1)
      ]_vars

\* the second hand of a seeded session is being dealt, after its seeding
C11_Witness ==
    /\ mpc = "deal"
    /\ args_seed # None
    /\ i = 2
    /\ dpc = "loop"
    /\ dseed = Some(args_seed[1] + 1)

\* a step in which a wait returns to main
WaitReturns == mpc = "poll" /\ mpc' \notin {"poll", "sleep", "stopped"}

\* C17: a wait that returns True and a wait that returns False leave main at
\* the same place with the same cards: before the next street of the hand
\* after Preflop, Flop and Turn, at the loop head after River; and what main
\* prints next is the line of that street, whatever the wait returned.
C17_SameAdvance ==
    [][/\ WaitReturns =>
            /\ ret' \in {Some(TRUE), Some(FALSE)}
            /\ mpc' = (IF street < 4 THEN "show" ELSE "for")
            /\ UNCHANGED <<street, i, seed, hands, out, dealt>>
       /\ (mpc = "show" /\ out' # out /\ mpc' # "stopped") =>
            out' = Append(out, StreetLine(street + 1, dealt[2]))
       /\ (mpc = "for" /\ mpc' = "done") => (i = hands /\ out' = Append(out, <<"Done", <<>>>>))
       /\ (mpc = "for" /\ mpc' = "deal") => (i < hands /\ out' = out)
      ]_vars

\* the Turn is displayed after a Flop wait that a key press ended, in a
\* session whose Preflop wait ended by timeout
C17_Witness ==
    /\ mpc = "wait"
    /\ street = 3
    /\ ret = Some(TRUE)
    /\ waits = 2
    /\ BagToSet(stale) # {}

\* C18: when stdin is not a terminal the watcher leaves the terminal mode
\* alone, never sets the key-pressed flag and ends without an exception, and
\* no wait returns True.
C18_WatcherDoesNothing ==
    stdinKind # "tty" =>
        /\ term = "cooked"
        /\ ~key_pressed
        /\ err = <<>>
        /\ ret # Some(TRUE)

\* a step in which a watcher reads a key that is neither a continue key nor
\* Ctrl-C
ReadsOtherKey ==
    /\ stdin # <<>>
    /\ stdin' = Tail(stdin)
    /\ Head(stdin) \notin ContinueKeys \cup {CtrlC}

\* C19: reading a key other than space, CR, LF and Ctrl-C leaves the flag and
\* main where they are; within one wait the flag changes only from unset to
\* set, in a step of that wait's watcher reading a continue key; and a wait
\* returns True only with the flag set.
C19_OtherKeysIgnored ==
    [][/\ ReadsOtherKey => (key_pressed' = key_pressed /\ mpc' = mpc /\ ret' = ret)
       /\ (waits' = waits /\ key_pressed' # key_pressed) =>
            /\ ~key_pressed
            /\ key_pressed'
            /\ watcher.pc = "select"
            /\ watcher'.pc = "finally_ret"
            /\ stdin # <<>>
            /\ Head(stdin) \in ContinueKeys
       /\ (waits' # waits) => ~key_pressed'
       /\ (WaitReturns /\ ret' = Some(TRUE)) => key_pressed
      ]_vars

\* the watcher of the current wait has read the key x: the flag is unset and
\* the watcher is reading on, with main still in the wait
C19_Witness ==
    /\ InWait
    /\ elapsed < timeout
    /\ watcher.pc = "select"
    /\ watcher.ch = Some("x")
    /\ ~key_pressed

(***************************************************************************)
(* Argument order of the range evaluator                                   *)
(***************************************************************************)
\* C20: is_btn_open_45 gives the same answer for (c1, c2) and (c2, c1), and
\* normalize_cards gives the same (hi, lo, suited, pair) for both orders, with
\* rank_value(hi) >= rank_value(lo) and equality exactly for pairs.
C20_OrderIndependent ==
    verdict # None =>
        LET n == normalize_cards(card1, card2)
        IN  /\ verdict[1] = is_btn_open_45(card2, card1)
            /\ n = normalize_cards(card2, card1)
            /\ rank_value(n.hi) >= rank_value(n.lo)
            /\ (rank_value(n.hi) = rank_value(n.lo)) <=> n.pair

\* a hand given with its lower rank first has been classified, and accepted
C20_Witness ==
    /\ verdict = Some(TRUE)
    /\ card1 = <<"K", "h">>
    /\ card2 = <<"A", "s">>

(***************************************************************************)
(* Attempts of the dealer                                                  *)
(***************************************************************************)
\* C16: every attempt shuffles a newly built 52-card deck as a whole; a
\* rejected attempt leaves the result untouched and the next attempt does not
\* use its deck; the returned hand is positions 1-2 and the returned board
\* positions 3 to 7, in deck order, of the one shuffle that was accepted.
C16_FreshDeckPerAttempt ==
    [][dpc = "loop" =>
        /\ deck' = shuffle(fresh_deck, rng).deck
        /\ Len(deck') = 52
        /\ {deck'[k] : k \in 1..52} = Cards
        /\ IF is_btn_open_45(deck'[1], deck'[2])
           THEN /\ dpc' = "ret"
                /\ dealt' = <<<<deck'[1], deck'[2]>>, SubSeq(deck', 3, 7)>>
           ELSE /\ dpc' = "loop"
                /\ dealt' = dealt
      ]_vars

\* an attempt has just been rejected and the loop is about to go round again
C16_Witness ==
    /\ dpc = "loop"
    /\ deck # <<>>
    /\ ~is_btn_open_45(deck[1], deck[2])

(***************************************************************************)
(* Termination of the dealer.  random.shuffle draws from the process-wide  *)
(* generator; here the state it shuffles from is not tracked: each attempt *)
(* shuffles from any state of RngPool, and the accepting outcome of an     *)
(* attempt is strongly fair (an in-range hand is drawn infinitely often).  *)
(***************************************************************************)
MaxPoolRng == 4
RngPool == 0..MaxPoolRng

\* random.shuffle(fresh_deck()) from each state of RngPool
Shuffled == [g \in RngPool |-> shuffle(fresh_deck, g)]

\* an attempt that never returns: an accepted hand goes round again too
DealAttemptAnyNoReturn ==
    /\ dpc = "loop"
    /\ \E g \in RngPool :
         LET sh == Shuffled[g]
         IN  /\ deck' = sh.deck
             /\ rng' = sh.rng
             /\ dealt' = dealt
             /\ dpc' = "loop"
    /\ UNCHANGED dseed

\* one iteration of `while True` with the generator in any state of RngPool
DealAttemptAny ==
    /\ dpc = "loop"
    /\ \E g \in RngPool :
         LET sh == Shuffled[g]
             c1 == sh.deck[1]
             c2 == sh.deck[2]
         IN  /\ deck' = sh.deck
             /\ rng' = sh.rng
             /\ IF is_btn_open_45(c1, c2)
                THEN /\ dealt' = <<<<c1, c2>>, board_of(sh.deck)>>
                     /\ dpc' = "ret"
                ELSE /\ dealt' = dealt
                     /\ dpc' = "loop"
    /\ UNCHANGED dseed

dealOthers == <<rangeVars, censusVars, callerVars, sessionVars, formatVars>>
NextDealFair ==
    \/ CallDeal /\ UNCHANGED <<rangeVars, censusVars, sessionVars, formatVars>>
    \/ DealSeed /\ UNCHANGED dealOthers
    \/ DealAttemptAny /\ UNCHANGED dealOthers
    \/ ReturnDeal /\ UNCHANGED <<rangeVars, censusVars, sessionVars, formatVars>>
SpecDealFair ==
    /\ InitDeal
    /\ [][NextDealFair]_vars
    /\ WF_vars(DealSeed /\ UNCHANGED dealOthers)
    /\ WF_vars(DealAttemptAny /\ UNCHANGED dealOthers)
    /\ SF_vars(DealAttemptAny /\ dpc' = "ret" /\ UNCHANGED dealOthers)

\* C15: under the fairness of SpecDealFair every call of
\* deal_btn_open_and_board returns: the rejection loop, once entered,
\* eventually accepts a hand.
C15_DealTerminates == (dpc \in {"seed", "loop"}) ~> (dpc = "ret")

\* the last call of the caller, made without a seed, has returned the first
\* two cards and the next five of its last shuffle
C15_Witness ==
    /\ dpc = "ret"
    /\ calls = MaxCalls
    /\ dseed = None
    /\ dealt = <<<<deck[1], deck[2]>>, SubSeq(deck, 3, 7)>>

(***************************************************************************)
(* Headless session: main run as by the test suite, with --timeout 0 and   *)
(* a stdin that is not a terminal, for 1..MaxTestHands hands.  No key can  *)
(* be typed and no SIGINT is raised; a watcher ends in its first step, and *)
(* the countdown loop is never entered.  The main thread is scheduled      *)
(* fairly, and the dealer draws as in SpecDealFair.                        *)
(***************************************************************************)
MaxTestHands == 3

InitHeadless ==
    /\ mpc = "for"
    /\ hands \in 1..MaxTestHands
    /\ args_seed \in {None, Some(MaxSeed)}
    /\ seed = args_seed
    /\ timeout = 0
    /\ i = 0
    /\ street = 0
    /\ out = <<>>
    /\ elapsed = 0
    /\ ret = None
    /\ waits = 0
    /\ key_pressed = FALSE
    /\ watcher = NoThread
    /\ stale = EmptyBag
    /\ err = <<>>
    /\ stdinKind \in {"notatty", "nofile"}
    /\ term = "cooked"
    /\ stdin = <<>>
    /\ line = <<>>
    /\ sigint = FALSE
    /\ typed = 0
    /\ pressed = FALSE
    /\ stopRead = FALSE
    /\ rng = MaxInitRng
    /\ DealIdle
    /\ RangeIdle /\ CensusIdle /\ CallerIdle /\ FormatIdle

MainHeadless ==
    \/ MainNextHand /\ UNCHANGED otherVars
    \/ (mpc = "deal" /\ DealSeed) /\ UNCHANGED <<otherVars, sessionVars>>
    \/ (mpc = "deal" /\ DealAttemptAny) /\ UNCHANGED <<otherVars, sessionVars>>
    \/ MainDealt /\ UNCHANGED otherVars
    \/ WaitStart /\ UNCHANGED <<otherVars, dealVars>>
    \/ WaitPoll /\ UNCHANGED <<otherVars, dealVars>>
    \/ MainShow /\ UNCHANGED otherVars
    \/ MainDone /\ UNCHANGED otherVars
NextHeadless ==
    \/ MainHeadless
    \/ \E s \in Slots : WatcherStart(s) /\ UNCHANGED <<otherVars, dealVars, mainVars>>
SpecHeadless ==
    /\ InitHeadless
    /\ [][NextHeadless]_vars
    /\ WF_vars(MainHeadless)
    /\ SF_vars((mpc = "deal" /\ DealAttemptAny /\ dpc' = "ret")
                  /\ UNCHANGED <<otherVars, sessionVars>>)

\* every hand of the session has been displayed street by street, and Done
HeadlessComplete ==
    /\ mpc = "done"
    /\ waits = 4 * hands
    /\ ret = Some(FALSE)
    /\ Len(out) = 5 * hands + 1
    /\ \A h \in 1..hands :
         /\ out[5 * (h - 1) + 1] = <<"Hand", h>>
         /\ out[5 * (h - 1) + 2][1] = "Preflop"
         /\ out[5 * (h - 1) + 3][1] = "Flop"
         /\ out[5 * (h - 1) + 4][1] = "Turn"
         /\ out[5 * (h - 1) + 5][1] = "River"
    /\ out[Len(out)] = <<"Done", <<>>>>

\* C12: with --timeout 0 and no terminal on stdin a session of 1..3 hands
\* terminates: every wait returns False without sleeping, the main flow is
\* never interrupted, all streets of all hands are displayed and Done is
\* printed after the 4n-th wait.
C12_HeadlessTerminates ==
    /\ <>HeadlessComplete
    /\ [](mpc \notin {"sleep", "stopped"} /\ ret # Some(TRUE))

\* a session of three hands on a redirected stdin has come to its end
C12_Witness ==
    /\ HeadlessComplete
    /\ hands = MaxTestHands
    /\ stdinKind = "notatty"

(***************************************************************************)
(* Malformed cards: is_btn_open_45 called on two-character strings whose   *)
(* rank or suit character may be outside RANKS or SUITS.  A call either    *)
(* returns a boolean or raises.                                            *)
(***************************************************************************)
Raised(e) == <<e, "raised">>

RankChars == {RANKS[k] : k \in 1..Len(RANKS)}
SuitChars == {SUITS[k] : k \in 1..Len(SUITS)}

\* the strings tried: every card, and cards with the rank X or the suit x
AnyCards == (RankChars \cup {"X"}) \X (SuitChars \cup {"x"})

\* the outcome of is_btn_open_45(c1, c2): normalize_cards calls
\* rank_value(r1) and rank_value(r2), and RANKS.index raises ValueError for a
\* character that is not in RANKS; the suits are only compared with each other
is_btn_open_45_outcome(c1, c2) ==
    IF c1[1] \notin RankChars \/ c2[1] \notin RankChars
    THEN Raised("ValueError")
    ELSE Some(is_btn_open_45(c1, c2))

MalformedInit ==
    /\ card1 \in AnyCards
    /\ card2 \in AnyCards
    /\ verdict = None

ClassifyAny ==
    /\ verdict = None
    /\ verdict' = is_btn_open_45_outcome(card1, card2)
    /\ UNCHANGED <<card1, card2>>

InitMalformed == MalformedInit /\ CensusIdle /\ rng = 0 /\ DealIdle /\ CallerIdle /\ SessionIdle /\ FormatIdle
NextMalformed == ClassifyAny /\ UNCHANGED <<censusVars, dealVars, callerVars, sessionVars, formatVars>>
SpecMalformed == InitMalformed /\ [][NextMalformed]_vars

Malformed(c) == c[1] \notin RankChars \/ c[2] \notin SuitChars

\* C13: whenever either card has a rank character outside RANKS or a suit
\* character outside SUITS, is_btn_open_45 raises and returns no boolean.
C13_MalformedRaises ==
    (verdict # None /\ (Malformed(card1) \/ Malformed(card2)))
        => verdict \notin {Some(TRUE), Some(FALSE)}

(***************************************************************************)
(* Card formatting                                                         *)
(***************************************************************************)
\* the glyph of each suit: s spade, h heart, d diamond, c club
Glyph(suit) ==
    CASE suit = "s" -> "U+2660"
      [] suit = "h" -> "U+2665"
      [] suit = "d" -> "U+2666"
      [] suit = "c" -> "U+2663"

\* C14: format_card of each of the 52 cards is the suit's color code, the
\* rank character, the suit's glyph, the reset code; format_cards is the
\* format_card results of its cards in input order joined by single spaces,
\* so the rank character of every input card occurs in it.
C14_FormatLayout ==
    formatted # None =>
        LET t == formatted[1]
            n == Len(cards)
        IN  /\ \A c \in Cards :
                 format_card(c) = <<SUIT_COLORS[c[2]], c[1], Glyph(c[2]), RESET_COLOR>>
            /\ Len(t) = IF n = 0 THEN 0 ELSE 5 * n - 1
            /\ \A k \in 1..n :
                 /\ SubSeq(t, 5 * k - 4, 5 * k - 1) = format_card(cards[k])
                 /\ k < n => t[5 * k] = " "
                 /\ \E p \in 1..Len(t) : t[p] = cards[k][1]

\* the list As, Kd, 7h has been formatted
C14_Witness ==
    /\ formatted # None
    /\ cards = <<<<"A", "s">>, <<"K", "d">>, <<"7", "h">>>>

====
